---- MODULE Spec2Model ----
(***************************************************************************)
(* recursum: the bounded-concurrency hashing pipeline of src/src/main.rs.  *)
(*                                                                         *)
(* One run of InputConfig::hash is modelled: a path source (List, Walker   *)
(* or Stdin) feeds hash_from_stream, which keeps a FIFO of spawned hash    *)
(* jobs (fut_queue), awaits the head of the FIFO and prints its result.    *)
(* Spawned tasks (the producer and the hash jobs) run on the core_threads  *)
(* worker threads of the tokio runtime; hash_from_stream itself runs on    *)
(* the thread that calls block_on.                                         *)
(*                                                                         *)
(* A path is identified by the index of its entry in the source sequence.  *)
(***************************************************************************)
EXTENDS Naturals, Sequences, FiniteSets

\* Largest hashing concurrency (--threads) explored.
MaxJobs == 2
\* Largest number of entries (arguments, directory entries, stdin lines) of a
\* run with one hashing thread: enough to fill the window (3), the path held
\* by the while loop (1) and the channel (3) and still leave the producer
\* with an entry in hand.
MaxEntries == 8
\* Largest number of entries of a run with more than one hashing thread.
MaxEntriesMulti == 5

\* Largest number of directory entries that are not regular files.
MaxDirs == 1

\* const BUFFER_PPN: f64 = 3.0
BUFFER_PPN == 3

VARIABLES
    variant,      \* InputConfig variant: "Files", "Directory" or "Stdin"
    n_jobs,       \* hashing threads (threads / n_jobs)
    entries,      \* what the source iterates over: "file" or "dir" per entry
    src_pos,      \* number of entries the source has consumed
    producer,     \* spawned producer task: "none", "running", "finished", "panicked"
    chan,         \* paths buffered in the mpsc channel
    job,          \* per path: "none", "spawned", "open", "ok", "panicked"
    fut_queue,    \* VecDeque of join handles (path ids), front first
    is_finished,  \* the flag of hash_from_stream
    prime_i,      \* iterations of the priming for-loop started so far
    path,         \* path bound by `while let Some(path)`, 0 when none
    pc,           \* position of hash_from_stream
    lines,        \* paths whose result line has been printed, in print order
    quiet,        \* --quiet
    total_files,  \* ResultOutput.total_files
    total_bytes,  \* ResultOutput.total_bytes
    summary,      \* summary lines written by finish(): <<files, bytes>> each
    \* one call of hash_file / hash_reader
    file_len,     \* length in bytes of the file behind `reader`
    inner_pos,    \* bytes the BufReader has read from the file
    buf_avail,    \* bytes in the BufReader's buffer not yet handed out
    fed,          \* hasher.update calls so far: <<from, to>> byte offsets each
    size,         \* `size` of hash_reader
    truncate,     \* Option<usize>: <<>> for None, <<t>> for Some(t)
    hash,         \* the bytes hasher.finalize() returns for this file
    hf_ret,       \* what hash_file returned: <<>> or <<[digest, size]>>
    hpc,          \* position in hash_file: "idle", "open", "read", "done", "panicked"
    \* main
    args,         \* opt.input: the arguments, [name, kind] each
    opt,          \* the other fields of Opt: separator, compatible, quiet, digest_length
    separator,    \* `separator` of main
    hash_first,   \* `hash_first` of main
    input,        \* the selected InputConfig: [mode, paths]
    stdout,       \* lines printed, each with the result it was printed for
    stderr,       \* summary lines of the fast path: <<files, bytes>> each
    mpc           \* position in main

vars == <<variant, n_jobs, entries, src_pos, producer, chan, job, fut_queue,
          is_finished, prime_i, path, pc, lines,
          quiet, total_files, total_bytes, summary,
          file_len, inner_pos, buf_avail, fed, size, truncate, hash, hf_ret, hpc,
          args, opt, separator, hash_first, input, stdout, stderr, mpc>>

\* The variables of main, and their values while main is not being followed.
mainVars == <<args, opt, separator, hash_first, input, stdout, stderr, mpc>>
NoInput == [mode |-> "none", paths |-> <<>>]
MainIdle ==
    /\ args = <<>>
    /\ opt = [separator |-> <<>>, compatible |-> FALSE, quiet |-> FALSE,
              digest_length |-> <<>>]
    /\ separator = <<>> /\ hash_first = FALSE /\ input = NoInput
    /\ stdout = <<>> /\ stderr = <<>> /\ mpc = "idle"

\* The variables of one hash_file call, and their values while no such call
\* is being followed.
hashVars == <<file_len, inner_pos, buf_avail, fed, size, truncate, hash, hf_ret, hpc>>
HashIdle ==
    /\ file_len = 0 /\ inner_pos = 0 /\ buf_avail = 0 /\ fed = <<>> /\ size = 0
    /\ truncate = <<>> /\ hash = <<>> /\ hf_ret = <<>> /\ hpc = "idle"

Variants == {"Files", "Directory", "Stdin"}

\* fn queue_length(n_jobs): (n_jobs as f64 * BUFFER_PPN).ceil() as usize;
\* BUFFER_PPN is integral, so the ceiling is the product itself.
QueueLength_short(n) == n - 1
QueueLength(n) == n * BUFFER_PPN

\* VecDeque::push_back / front / pop_front
PushBack_drop(q, h) == q
PushBack(q, h) == Append(q, h)
Front(q) == Head(q)
PopFront(q) == Tail(q)

\* Capacity of the channel the variant builds: mpsc::channel(queue_len) in
\* walk_paths, mpsc::unbounded_channel() in stdin_paths (0 stands for no bound).
ChannelCapacity == IF variant = "Directory" THEN QueueLength(n_jobs) ELSE 0
ChannelFull == ChannelCapacity # 0 /\ Len(chan) >= ChannelCapacity

\* runtime::Builder ... core_threads(threads): a spawned task is polled by one
\* of `threads` workers; hash_file never yields, so a job that has opened its
\* file keeps its worker until it returns.
OpenJobs == {i \in DOMAIN job : job[i] = "open"}
FreeWorker_unbounded == TRUE
FreeWorker == Cardinality(OpenJobs) < n_jobs

\* The process is alive: hash_from_stream has neither returned nor panicked.
Alive == pc \notin {"done", "failed"}

\* Entry sequences of length k with at most MaxDirs entries that are not files.
EntrySeqs(k) ==
    {e \in [1..k -> {"file", "dir"}] :
        Cardinality({i \in 1..k : e[i] = "dir"}) <= MaxDirs}

Init ==
    /\ variant \in Variants
    /\ n_jobs \in 1..MaxJobs
    /\ \E k \in 0..(IF n_jobs = 1 THEN MaxEntries ELSE MaxEntriesMulti) :
          entries \in IF variant = "Directory" THEN EntrySeqs(k)
                      ELSE {[i \in 1..k |-> "file"]}
    /\ src_pos = 0
    /\ producer = IF variant = "Files" THEN "none" ELSE "running"
    /\ chan = <<>>
    /\ job = [i \in DOMAIN entries |-> "none"]
    /\ fut_queue = <<>>
    /\ is_finished = FALSE
    /\ prime_i = 0
    /\ path = 0
    /\ pc = "prime"
    /\ lines = <<>>
    /\ quiet \in BOOLEAN
    /\ total_files = 0
    /\ total_bytes = 0
    /\ summary = <<>>
    /\ HashIdle
    /\ MainIdle

----------------------------------------------------------------------------
(* The producer task of walk_paths / stdin_paths.                          *)

schedVars == <<fut_queue, is_finished, prime_i, path, pc, lines,
               quiet, total_files, total_bytes, summary>>

\* for entry in WalkDir: an Ok entry; a regular file is sent, anything else
\* is skipped.  send().await suspends while the channel is full.
WalkEntry ==
    /\ Alive /\ variant = "Directory" /\ producer = "running" /\ FreeWorker
    /\ src_pos < Len(entries)
    /\ IF entries[src_pos + 1] = "file"
       THEN /\ ~ChannelFull
            /\ chan' = Append(chan, src_pos + 1)
       ELSE chan' = chan
    /\ src_pos' = src_pos + 1
    /\ UNCHANGED <<variant, n_jobs, entries, producer, job>>
    /\ UNCHANGED schedVars /\ UNCHANGED hashVars /\ UNCHANGED mainVars

\* entry.unwrap() on an Err entry: the task panics, the panic is caught by
\* the runtime, the sender is dropped.
WalkError ==
    /\ Alive /\ variant = "Directory" /\ producer = "running" /\ FreeWorker
    /\ producer' = "panicked"
    /\ UNCHANGED <<variant, n_jobs, entries, src_pos, chan, job>>
    /\ UNCHANGED schedVars /\ UNCHANGED hashVars /\ UNCHANGED mainVars

\* while let Some(path_result) = line_stream.next().await: one line, sent on
\* the unbounded channel.
StdinLine ==
    /\ Alive /\ variant = "Stdin" /\ producer = "running" /\ FreeWorker
    /\ src_pos < Len(entries)
    /\ chan' = Append(chan, src_pos + 1)
    /\ src_pos' = src_pos + 1
    /\ UNCHANGED <<variant, n_jobs, entries, producer, job>>
    /\ UNCHANGED schedVars /\ UNCHANGED hashVars /\ UNCHANGED mainVars

\* path_result.unwrap() on a read error of stdin.
StdinError ==
    /\ Alive /\ variant = "Stdin" /\ producer = "running" /\ FreeWorker
    /\ producer' = "panicked"
    /\ UNCHANGED <<variant, n_jobs, entries, src_pos, chan, job>>
    /\ UNCHANGED schedVars /\ UNCHANGED hashVars /\ UNCHANGED mainVars

\* The iteration is over: the task returns and drops the sender.
ProducerEnd_keepopen ==
    /\ Alive /\ producer = "running" /\ FreeWorker
    /\ src_pos = Len(entries)
    /\ UNCHANGED <<variant, n_jobs, entries, src_pos, producer, chan, job>>
    /\ UNCHANGED schedVars /\ UNCHANGED hashVars /\ UNCHANGED mainVars
ProducerEnd ==
    /\ Alive /\ producer = "running" /\ FreeWorker
    /\ src_pos = Len(entries)
    /\ producer' = "finished"
    /\ UNCHANGED <<variant, n_jobs, entries, src_pos, chan, job>>
    /\ UNCHANGED schedVars /\ UNCHANGED hashVars /\ UNCHANGED mainVars

Producer == WalkEntry \/ WalkError \/ StdinLine \/ StdinError \/ ProducerEnd

----------------------------------------------------------------------------
(* A spawned hash job: hash_file(path, MeowHasher::new(), truncate_to).    *)

jobFrame == <<variant, n_jobs, entries, src_pos, producer, chan>>

\* File::open(fpath) succeeds on a worker thread.
JobOpen(i) ==
    /\ Alive /\ job[i] = "spawned" /\ FreeWorker
    /\ job' = [job EXCEPT ![i] = "open"]
    /\ UNCHANGED jobFrame /\ UNCHANGED schedVars /\ UNCHANGED hashVars /\ UNCHANGED mainVars

\* File::open(fpath).unwrap() panics: the join handle resolves to Err.
JobOpenFail(i) ==
    /\ Alive /\ job[i] = "spawned" /\ FreeWorker
    /\ job' = [job EXCEPT ![i] = "panicked"]
    /\ UNCHANGED jobFrame /\ UNCHANGED schedVars /\ UNCHANGED hashVars /\ UNCHANGED mainVars

\* hash_reader reaches end of file; the file is closed, the job returns.
JobFinish(i) ==
    /\ Alive /\ job[i] = "open"
    /\ job' = [job EXCEPT ![i] = "ok"]
    /\ UNCHANGED jobFrame /\ UNCHANGED schedVars /\ UNCHANGED hashVars /\ UNCHANGED mainVars

\* buf_reader.read(..).expect("could not read file") panics; unwinding
\* closes the file.
JobReadFail(i) ==
    /\ Alive /\ job[i] = "open"
    /\ job' = [job EXCEPT ![i] = "panicked"]
    /\ UNCHANGED jobFrame /\ UNCHANGED schedVars /\ UNCHANGED hashVars /\ UNCHANGED mainVars

Jobs == \E i \in DOMAIN job :
           JobOpen(i) \/ JobOpenFail(i) \/ JobFinish(i) \/ JobReadFail(i)

----------------------------------------------------------------------------
(* hash_from_stream, run by block_on on the calling thread.                *)

prodFrame == <<variant, n_jobs, entries, producer, quiet>>

\* path_stream.next().await: iter(paths) for Files, the receiver otherwise.
\* The receiver yields None once the buffer is empty and the sender dropped.
NextIsSome == IF variant = "Files" THEN src_pos < Len(entries) ELSE chan # <<>>
NextIsNone ==
    IF variant = "Files" THEN src_pos = Len(entries)
    ELSE chan = <<>> /\ producer \in {"finished", "panicked"}
NextPath == IF variant = "Files" THEN src_pos + 1 ELSE Head(chan)
TakeNext ==
    IF variant = "Files"
    THEN src_pos' = src_pos + 1 /\ chan' = chan
    ELSE chan' = Tail(chan) /\ src_pos' = src_pos

\* tokio::spawn(async move { hash_file(..) })
Spawn(p) == [job EXCEPT ![p] = "spawned"]

\* ResultOutput::handle_output: one line per result.
HandleOutput(out, p) == Append(out, p)

\* result.2: the byte count hash_file returns for path p.  The files of a run
\* have pairwise different sizes and the first one is empty.
FileSize(p) == p - 1

\* if !self.quiet { self.total_files += 1; self.total_bytes += size; }
CountFiles_always(q, n) == n + 1
CountFiles(q, n) == IF q THEN n ELSE n + 1
CountBytes(q, b, sz) == IF q THEN b ELSE b + sz

\* ResultOutput::finish: the summary line, unless quiet.
FinishSummary_always(q, f, b) == <<<<f, b>>>>
FinishSummary(q, f, b) == IF q THEN <<>> ELSE <<<<f, b>>>>

\* for _ in 0..queue_len { if let Some(path) = path_stream.next().await {..} }
PrimeAdmit ==
    /\ pc = "prime" /\ prime_i < QueueLength(n_jobs)
    /\ NextIsSome
    /\ fut_queue' = PushBack(fut_queue, NextPath)
    /\ job' = Spawn(NextPath)
    /\ TakeNext
    /\ prime_i' = prime_i + 1
    /\ UNCHANGED prodFrame /\ UNCHANGED hashVars /\ UNCHANGED mainVars
    /\ UNCHANGED <<is_finished, path, pc, lines,
                   total_files, total_bytes, summary>>

\* else { is_finished = true; break; } and the skipped `if !is_finished`.
PrimeExhausted_noflag ==
    /\ pc = "prime" /\ prime_i < QueueLength(n_jobs)
    /\ NextIsNone
    /\ pc' = "steady"
    /\ UNCHANGED prodFrame /\ UNCHANGED hashVars /\ UNCHANGED mainVars
    /\ UNCHANGED <<src_pos, chan, job, fut_queue, is_finished, prime_i, path, lines,
                   total_files, total_bytes, summary>>
PrimeExhausted ==
    /\ pc = "prime" /\ prime_i < QueueLength(n_jobs)
    /\ NextIsNone
    /\ is_finished' = TRUE
    /\ pc' = "drain"
    /\ UNCHANGED prodFrame /\ UNCHANGED hashVars /\ UNCHANGED mainVars
    /\ UNCHANGED <<src_pos, chan, job, fut_queue, prime_i, path, lines,
                   total_files, total_bytes, summary>>

\* The for-loop ran queue_len times; is_finished is false, the while loop starts.
PrimeDone_early ==
    /\ pc = "prime"
    /\ pc' = "steady"
    /\ UNCHANGED prodFrame /\ UNCHANGED hashVars /\ UNCHANGED mainVars
    /\ UNCHANGED <<src_pos, chan, job, fut_queue, is_finished, prime_i, path, lines,
                   total_files, total_bytes, summary>>
PrimeDone ==
    /\ pc = "prime" /\ prime_i >= QueueLength(n_jobs)
    /\ pc' = "steady"
    /\ UNCHANGED prodFrame /\ UNCHANGED hashVars /\ UNCHANGED mainVars
    /\ UNCHANGED <<src_pos, chan, job, fut_queue, is_finished, prime_i, path, lines,
                   total_files, total_bytes, summary>>

\* while let Some(path) = path_stream.next().await
SteadyRecv ==
    /\ pc = "steady"
    /\ NextIsSome
    /\ path' = NextPath
    /\ TakeNext
    /\ pc' = "await"
    /\ UNCHANGED prodFrame /\ UNCHANGED hashVars /\ UNCHANGED mainVars
    /\ UNCHANGED <<job, fut_queue, is_finished, prime_i, lines,
                   total_files, total_bytes, summary>>

\* The stream yields None: the while loop ends.
SteadyEnd ==
    /\ pc = "steady"
    /\ NextIsNone
    /\ pc' = "drain"
    /\ UNCHANGED prodFrame /\ UNCHANGED hashVars /\ UNCHANGED mainVars
    /\ UNCHANGED <<src_pos, chan, job, fut_queue, is_finished, prime_i, path, lines,
                   total_files, total_bytes, summary>>

\* fut_queue.pop_front().unwrap().await.unwrap(); handle_output; push_back(spawn)
SteadyEmit_any ==
    /\ pc = "await"
    /\ \E k \in 1..Len(fut_queue) :
          /\ job[fut_queue[k]] = "ok"
          /\ lines' = HandleOutput(lines, fut_queue[k])
          /\ total_files' = CountFiles(quiet, total_files)
          /\ total_bytes' = CountBytes(quiet, total_bytes, FileSize(fut_queue[k]))
          /\ fut_queue' = PushBack([j \in 1..(Len(fut_queue) - 1) |->
                                       IF j < k THEN fut_queue[j] ELSE fut_queue[j + 1]],
                                   path)
    /\ UNCHANGED summary
    /\ job' = Spawn(path)
    /\ path' = 0
    /\ pc' = "steady"
    /\ UNCHANGED prodFrame /\ UNCHANGED hashVars /\ UNCHANGED mainVars
    /\ UNCHANGED <<src_pos, chan, is_finished, prime_i>>
SteadyEmit_noawait ==
    /\ pc = "await"
    /\ fut_queue # <<>>
    /\ fut_queue' = PushBack(fut_queue, path)
    /\ job' = Spawn(path)
    /\ path' = 0
    /\ pc' = "steady"
    /\ UNCHANGED prodFrame /\ UNCHANGED hashVars /\ UNCHANGED mainVars
    /\ UNCHANGED <<src_pos, chan, is_finished, prime_i, lines,
                   total_files, total_bytes, summary>>
SteadyEmit ==
    /\ pc = "await"
    /\ fut_queue # <<>>
    /\ job[Front(fut_queue)] = "ok"
    /\ lines' = HandleOutput(lines, Front(fut_queue))
    /\ total_files' = CountFiles(quiet, total_files)
    /\ total_bytes' = CountBytes(quiet, total_bytes, FileSize(Front(fut_queue)))
    /\ UNCHANGED summary
    /\ fut_queue' = PushBack(PopFront(fut_queue), path)
    /\ job' = Spawn(path)
    /\ path' = 0
    /\ pc' = "steady"
    /\ UNCHANGED prodFrame /\ UNCHANGED hashVars /\ UNCHANGED mainVars
    /\ UNCHANGED <<src_pos, chan, is_finished, prime_i>>

\* for fut in fut_queue.into_iter() { fut.await.unwrap(); handle_output }
DrainEmit_eager ==
    /\ pc \in {"drain", "steady"}
    /\ fut_queue # <<>>
    /\ job[Front(fut_queue)] = "ok"
    /\ lines' = HandleOutput(lines, Front(fut_queue))
    /\ total_files' = CountFiles(quiet, total_files)
    /\ total_bytes' = CountBytes(quiet, total_bytes, FileSize(Front(fut_queue)))
    /\ UNCHANGED summary
    /\ fut_queue' = PopFront(fut_queue)
    /\ UNCHANGED prodFrame /\ UNCHANGED hashVars /\ UNCHANGED mainVars
    /\ UNCHANGED <<src_pos, chan, job, is_finished, prime_i, path, pc>>
DrainEmit ==
    /\ pc = "drain"
    /\ fut_queue # <<>>
    /\ job[Front(fut_queue)] = "ok"
    /\ lines' = HandleOutput(lines, Front(fut_queue))
    /\ total_files' = CountFiles(quiet, total_files)
    /\ total_bytes' = CountBytes(quiet, total_bytes, FileSize(Front(fut_queue)))
    /\ UNCHANGED summary
    /\ fut_queue' = PopFront(fut_queue)
    /\ UNCHANGED prodFrame /\ UNCHANGED hashVars /\ UNCHANGED mainVars
    /\ UNCHANGED <<src_pos, chan, job, is_finished, prime_i, path, pc>>

\* .unwrap() on the JoinError of a panicked job (or on the None of an empty
\* window in the while loop): hash_from_stream panics on the main thread.
AwaitPanic_skip ==
    /\ pc \in {"await", "drain"}
    /\ fut_queue # <<>>
    /\ job[Front(fut_queue)] = "panicked"
    /\ fut_queue' = IF pc = "await" THEN PushBack(PopFront(fut_queue), path)
                    ELSE PopFront(fut_queue)
    /\ job' = IF pc = "await" THEN Spawn(path) ELSE job
    /\ path' = 0
    /\ pc' = IF pc = "await" THEN "steady" ELSE "drain"
    /\ UNCHANGED prodFrame /\ UNCHANGED hashVars /\ UNCHANGED mainVars
    /\ UNCHANGED <<src_pos, chan, is_finished, prime_i, lines,
                   total_files, total_bytes, summary>>
AwaitPanic ==
    /\ \/ pc = "await" /\ fut_queue = <<>>
       \/ pc \in {"await", "drain"} /\ fut_queue # <<>>
          /\ job[Front(fut_queue)] = "panicked"
    /\ pc' = "failed"
    /\ UNCHANGED prodFrame /\ UNCHANGED hashVars /\ UNCHANGED mainVars
    /\ UNCHANGED <<src_pos, chan, job, fut_queue, is_finished, prime_i, path, lines,
                   total_files, total_bytes, summary>>

\* output.finish(): hash_from_stream returns.
Finish ==
    /\ pc = "drain"
    /\ fut_queue = <<>>
    /\ summary' = summary \o FinishSummary(quiet, total_files, total_bytes)
    /\ pc' = "done"
    /\ UNCHANGED prodFrame /\ UNCHANGED hashVars /\ UNCHANGED mainVars
    /\ UNCHANGED <<src_pos, chan, job, fut_queue, is_finished, prime_i, path, lines,
                   total_files, total_bytes>>

Scheduler ==
    \/ PrimeAdmit \/ PrimeExhausted \/ PrimeDone
    \/ SteadyRecv \/ SteadyEnd \/ SteadyEmit
    \/ DrainEmit \/ AwaitPanic \/ Finish

Next == Producer \/ Jobs \/ Scheduler

Spec == Init /\ [][Next]_vars

\* The threaded scheduler keeps polling every runnable task, and block_on
\* keeps polling hash_from_stream.  Errors of the environment (a traversal
\* error, a read error on stdin, an unreadable file) may happen but are never
\* forced.
ProducerProgress == WalkEntry \/ StdinLine \/ ProducerEnd
JobsProgress == \E i \in DOMAIN job : JobOpen(i) \/ JobFinish(i)
LiveSpec ==
    /\ Init /\ [][Next]_vars
    /\ WF_vars(ProducerProgress) /\ WF_vars(JobsProgress) /\ WF_vars(Scheduler)

----------------------------------------------------------------------------
(* Vocabulary of the properties.                                           *)

Indices == [i \in 1..Len(entries) |-> i]
IsFile(i) == entries[i] = "file"

\* p_1..p_k: the paths of the source, in source order.
SourcePaths == SelectSeq(Indices, IsFile)

\* The paths the source has delivered so far: the whole list for Files, the
\* paths sent on the channel otherwise.
Sent ==
    IF variant = "Files" THEN SourcePaths
    ELSE SelectSeq(SubSeq(Indices, 1, src_pos), IsFile)

\* The paths hash_from_stream has taken from the stream, in the order taken.
Received == lines \o fut_queue \o (IF path = 0 THEN <<>> ELSE <<path>>)

IsPrefix(s, t) == Len(s) <= Len(t) /\ \A i \in 1..Len(s) : s[i] = t[i]

\* Hash jobs spawned so far.
Admitted == Cardinality({i \in DOMAIN job : job[i] # "none"})

AnyPanicked == \E i \in DOMAIN job : job[i] = "panicked"

----------------------------------------------------------------------------
\* C1: the i-th printed result is the result of the i-th path of the source,
\* whatever the order in which the hash jobs complete.
OrderPreserved == IsPrefix(lines, SourcePaths)

\* A later job of the window has completed while the head has not, after
\* results have been printed.
OrderWitness ==
    /\ Len(lines) >= 1 /\ Len(fut_queue) >= 2
    /\ job[fut_queue[1]] \in {"spawned", "open"}
    /\ job[fut_queue[2]] = "ok"

\* C2: nothing is dropped, duplicated or invented: the paths taken from the
\* stream are exactly the ones delivered, and a run that returns has printed
\* one line for each delivered path.
AllDelivered ==
    /\ IF variant = "Files"
       THEN Received = SubSeq(SourcePaths, 1, src_pos)
       ELSE Received \o chan = Sent
    /\ pc = "done" => lines = Sent

\* A finished run over more paths than the priming loop admits.
AllDeliveredWitness ==
    pc = "done" /\ Len(lines) > QueueLength(n_jobs) /\ lines = Sent

\* C3: the window holds at most N jobs.
WindowAtMostN == Len(fut_queue) <= n_jobs

\* C4: at most N hash jobs hold an open file.
OpenFilesBounded == Cardinality(OpenJobs) <= n_jobs

\* All N workers hold a file while further spawned jobs wait in the window.
OpenFilesWitness ==
    /\ Cardinality(OpenJobs) = n_jobs
    /\ Len(fut_queue) > n_jobs
    /\ \E i \in DOMAIN job : job[i] = "spawned"

\* C5: a result is printed only outside the priming loop, and only once N
\* jobs have been admitted or early exhaustion has been recorded.
NoEmitBeforeFilled ==
    [][Len(lines') > Len(lines) =>
          pc # "prime" /\ (Admitted >= n_jobs \/ is_finished)]_vars

\* A result printed after the priming loop ran to its end.
NoEmitWitness == lines # <<>> /\ ~is_finished /\ Admitted >= n_jobs

\* C6: the channel of the Walker and of the Line Reader never holds more
\* than ceil(N * 3) paths.
ConduitBounded ==
    variant \in {"Directory", "Stdin"} => Len(chan) <= QueueLength(n_jobs)

\* C7: a traversal error of the Walker never ends in a run that returns
\* from hash_from_stream through output.finish().
WalkErrorAborts ==
    ~(variant = "Directory" /\ producer = "panicked" /\ pc = "done")

\* C8: with p_f the first path whose job fails, exactly the paths before p_f
\* are printed, the run fails at p_f, finish() is not reached and printed
\* lines stay.
JobFailureAborts ==
    /\ [](pc = "done" => ~AnyPanicked)
    /\ [](\A k \in 1..Len(lines) : \A j \in DOMAIN job :
             (IsFile(j) /\ j <= lines[k]) => job[j] = "ok")
    /\ [](pc = "failed" =>
             /\ fut_queue # <<>>
             /\ job[Front(fut_queue)] = "panicked"
             /\ IsPrefix(lines \o <<Front(fut_queue)>>, SourcePaths))
    /\ [][IsPrefix(lines, lines')]_vars
    /\ AnyPanicked ~> (pc = "failed")

\* The run failed at a job after printing earlier results, while a job
\* behind the failed one had completed.
JobFailureWitness ==
    /\ pc = "failed" /\ lines # <<>> /\ Len(fut_queue) >= 2
    /\ job[fut_queue[2]] = "ok"

\* C9: a source that closes during priming sets is_finished, the while loop
\* is never entered and the window is drained in order; a source with
\* exactly queue_len paths enters the while loop, which admits nothing.
EarlyExhaustion ==
    /\ pc \in {"steady", "await"} =>
          ~is_finished /\ prime_i = QueueLength(n_jobs)
    /\ is_finished =>
          pc \in {"drain", "done", "failed"} /\ Admitted < QueueLength(n_jobs)
    /\ (pc \in {"drain", "done", "failed"} /\ Admitted < n_jobs) => is_finished
    /\ (pc \in {"drain", "done"} /\ Admitted <= QueueLength(n_jobs)) =>
          IsPrefix(lines, Sent) /\ lines \o fut_queue = Sent
    /\ pc = "await" => Admitted >= QueueLength(n_jobs)
    /\ (pc = "done" /\ Admitted = QueueLength(n_jobs)) => ~is_finished

\* A run over fewer than N paths has returned.
EarlyExhaustionWitness ==
    pc = "done" /\ is_finished /\ lines # <<>> /\ Len(lines) < n_jobs

\* C10: a run whose jobs all complete terminates in finish(); once draining
\* has begun the window only shrinks, and it is empty at the end.
DrainShrinks ==
    pc \in {"drain", "done"} =>
       /\ pc' \in {"drain", "done", "failed"}
       /\ fut_queue' \in {fut_queue} \cup
              (IF fut_queue = <<>> THEN {} ELSE {Tail(fut_queue)})
Terminates ==
    /\ <>(pc = "done" \/ AnyPanicked)
    /\ [](pc = "done" => fut_queue = <<>>)
    /\ [][DrainShrinks]_vars

\* The producer is suspended on a full channel while hash_from_stream awaits
\* a head job that has not completed.
TerminatesWitness ==
    /\ variant = "Directory" /\ producer = "running" /\ ChannelFull
    /\ src_pos < Len(entries)
    /\ pc = "await" /\ job[Front(fut_queue)] \in {"spawned", "open"}

----------------------------------------------------------------------------
RECURSIVE SumSizes(_)
\* Sum of the byte counts of the results printed in `out`.
SumSizes(out) == IF out = <<>> THEN 0 ELSE FileSize(Head(out)) + SumSizes(Tail(out))

\* The source can yield nothing more: the list is exhausted, or the sender
\* is dropped and the channel empty.
SourceClosed ==
    IF variant = "Files" THEN src_pos = Len(entries)
    ELSE producer \in {"finished", "panicked"} /\ chan = <<>>

\* C11: unless quiet, total_files is the number of printed results and
\* total_bytes the sum of their byte counts, and finish() reports them; when
\* quiet the totals stay 0 and no summary is written; in both modes each
\* call prints the line of the result it was given.
TotalsMatchLines ==
    /\ [](~quiet => /\ total_files = Len(lines)
                    /\ total_bytes = SumSizes(lines)
                    /\ pc = "done" => summary = <<<<Len(lines), SumSizes(lines)>>>>)
    /\ [](quiet => total_files = 0 /\ total_bytes = 0 /\ summary = <<>>)
    /\ [][lines' # lines =>
             fut_queue # <<>> /\ lines' = Append(lines, Front(fut_queue))]_vars

\* A non-quiet run has returned after printing results with bytes to count.
TotalsWitness ==
    pc = "done" /\ ~quiet /\ total_files >= 2 /\ total_bytes >= 1

\* C12: a Line Reader that meets end-of-input at once prints no line, spawns
\* no job, never fails and returns with the summary <<0, 0>> (none if quiet).
EmptyStdinRun == variant = "Stdin" /\ entries = <<>>
EmptyStdin ==
    /\ [](EmptyStdinRun =>
             /\ lines = <<>> /\ Admitted = 0 /\ fut_queue = <<>>
             /\ pc # "failed"
             /\ pc = "done" => summary = (IF quiet THEN <<>> ELSE <<<<0, 0>>>>))
    /\ EmptyStdinRun ~> (pc = "done")

\* The empty Line Reader run has returned and written its summary.
EmptyStdinWitness ==
    EmptyStdinRun /\ pc = "done" /\ producer = "finished" /\ summary = <<<<0, 0>>>>

\* C18: in the while loop the window is never empty when its head is popped;
\* an iteration pops one job and pushes one, so the window keeps the size
\* priming gave it.
SteadyIteration ==
    (pc = "await" /\ pc' = "steady") =>
       /\ fut_queue # <<>>
       /\ lines' = Append(lines, Head(fut_queue))
       /\ fut_queue' = Append(Tail(fut_queue), path)
NoEmptyPop ==
    /\ [](pc \in {"steady", "await"} =>
             /\ n_jobs >= 1
             /\ fut_queue # <<>>
             /\ Len(fut_queue) = prime_i
             /\ prime_i = BUFFER_PPN * n_jobs)
    /\ [][SteadyIteration]_vars

\* The while loop is in its second or later iteration.
NoEmptyPopWitness == pc = "await" /\ lines # <<>> /\ path # 0

\* C19: at most queue_length(N) spawned jobs have no printed result, and at
\* most one more path has left the source without being in the window.
TakenFromSource == IF variant = "Files" THEN src_pos ELSE Len(Sent) - Len(chan)
InFlightBounded ==
    /\ Admitted - Len(lines) <= BUFFER_PPN * n_jobs
    /\ Len(fut_queue) <= BUFFER_PPN * n_jobs
    /\ TakenFromSource - Admitted <= 1
    /\ TakenFromSource - Admitted = (IF path = 0 THEN 0 ELSE 1)
    /\ path # 0 => pc \in {"await", "failed"}

\* The window is full and the while loop holds one more path.
InFlightWitness ==
    /\ Admitted - Len(lines) = BUFFER_PPN * n_jobs
    /\ TakenFromSource - Admitted = 1
    /\ lines # <<>>

\* C20: the i-th result is printed only once the (i + Q)-th path has been
\* taken from the source, Q being the number of jobs priming admitted, or
\* the source has closed.
EmitGatedOnSource ==
    [][Len(lines') > Len(lines) =>
          \/ TakenFromSource >= Len(lines) + 1 + prime_i
          \/ SourceClosed]_vars

\* Every job of the window has completed, the source is open and has
\* nothing to deliver: hash_from_stream waits without printing.
EmitGatedWitness ==
    /\ pc = "steady" /\ ~SourceClosed /\ ~NextIsSome
    /\ \A k \in 1..Len(fut_queue) : job[fut_queue[k]] = "ok"
    /\ lines # <<>>

----------------------------------------------------------------------------
(* hash_file and hash_reader, followed for one file on their own.  A byte  *)
(* of the file is identified by its offset.                                *)

\* Largest file length explored.
MaxFileLen == 9300
\* Bytes in the digest finalize() returns, and the largest --digest-length.
DigestBytes == 2
MaxTruncate == 5
\* The length of a short read of the file.
ShortRead == 1500

\* const READ_BUFFER_SIZE: usize = 8 * 1024
READ_BUFFER_SIZE == 8192
\* const HASH_BUFFER_SIZE: usize = 1024
HASH_BUFFER_SIZE == 1024

pipeVars == <<variant, n_jobs, entries, src_pos, producer, chan, job, fut_queue,
              is_finished, prime_i, path, pc, lines,
              quiet, total_files, total_bytes, summary>>

\* The values of the pipeline's variables while no pipeline is running.
PipelineIdle ==
    /\ variant = "Files" /\ n_jobs = 1 /\ entries = <<>> /\ src_pos = 0
    /\ producer = "none" /\ chan = <<>> /\ job = <<>> /\ fut_queue = <<>>
    /\ is_finished = FALSE /\ prime_i = 0 /\ path = 0 /\ pc = "idle"
    /\ lines = <<>> /\ quiet = FALSE /\ total_files = 0 /\ total_bytes = 0
    /\ summary = <<>>

Min(a, b) == IF a < b THEN a ELSE b

\* File lengths around the two buffer sizes.
FileLens ==
    {0, 1, HASH_BUFFER_SIZE - 1, HASH_BUFFER_SIZE, HASH_BUFFER_SIZE + 1,
     READ_BUFFER_SIZE, READ_BUFFER_SIZE + 1, MaxFileLen}
\* Byte values a digest is built from.
ByteValues == {10, 171}
\* What File::read may return when `remaining` bytes are left and the
\* BufReader asks for its whole buffer: all it can, or fewer (a short read).
InnerReads(remaining) ==
    IF remaining = 0 THEN {0}
    ELSE {Min(READ_BUFFER_SIZE, remaining)} \cup
         (IF ShortRead < Min(READ_BUFFER_SIZE, remaining) THEN {ShortRead} ELSE {})

\* hex::encode: two lowercase hex digits per byte.
HexDigits == <<"0", "1", "2", "3", "4", "5", "6", "7",
               "8", "9", "a", "b", "c", "d", "e", "f">>
RECURSIVE HexEncode(_)
HexEncode(bytes) ==
    IF bytes = <<>> THEN <<>>
    ELSE <<HexDigits[(Head(bytes) \div 16) + 1], HexDigits[(Head(bytes) % 16) + 1]>>
         \o HexEncode(Tail(bytes))

\* String::truncate(new_len): no effect when new_len >= len.
Truncate_tail(str, t) ==
    IF t < Len(str) THEN SubSeq(str, Len(str) - t + 1, Len(str)) ELSE str
Truncate(str, t) == IF t < Len(str) THEN SubSeq(str, 1, t) ELSE str

\* if let Some(t) = truncate { digest.truncate(t); }
TruncateTo(digest, tr) == IF tr = <<>> THEN digest ELSE Truncate(digest, tr[1])

\* if count == 0 { break; }
IsEof_short(count) == count < HASH_BUFFER_SIZE
IsEof(count) == count = 0

HashInit ==
    /\ PipelineIdle
    /\ MainIdle
    /\ file_len \in FileLens
    /\ truncate \in {<<>>} \cup {<<t>> : t \in 0..MaxTruncate}
    /\ hash \in [1..DigestBytes -> ByteValues]
    /\ inner_pos = 0 /\ buf_avail = 0 /\ fed = <<>> /\ size = 0
    /\ hf_ret = <<>>
    /\ hpc = "open"

\* File::open(fpath).unwrap()
HfOpen ==
    /\ hpc = "open"
    /\ hpc' = "read"
    /\ UNCHANGED <<file_len, inner_pos, buf_avail, fed, size, truncate, hash, hf_ret>>
    /\ UNCHANGED pipeVars /\ UNCHANGED mainVars
HfOpenFail ==
    /\ hpc = "open"
    /\ hpc' = "panicked"
    /\ UNCHANGED <<file_len, inner_pos, buf_avail, fed, size, truncate, hash, hf_ret>>
    /\ UNCHANGED pipeVars /\ UNCHANGED mainVars

\* buf_reader.read(&mut buf): an empty BufReader first reads n bytes from the
\* file into its buffer; then up to HASH_BUFFER_SIZE buffered bytes are
\* copied to buf.
Avail(n) == IF buf_avail = 0 THEN n ELSE buf_avail
Refills == IF buf_avail = 0 THEN InnerReads(file_len - inner_pos) ELSE {0}
ReadCount(n) == Min(HASH_BUFFER_SIZE, Avail(n))
ReadFrom(n) == (IF buf_avail = 0 THEN inner_pos + n ELSE inner_pos) - Avail(n)

\* One iteration of the loop with count > 0: hasher.update(&buf[..count]);
\* size += count.
HrChunk ==
    /\ hpc = "read"
    /\ \E n \in Refills :
          /\ ~IsEof(ReadCount(n))
          /\ inner_pos' = (IF buf_avail = 0 THEN inner_pos + n ELSE inner_pos)
          /\ buf_avail' = Avail(n) - ReadCount(n)
          /\ fed' = Append(fed, <<ReadFrom(n), ReadFrom(n) + ReadCount(n)>>)
          /\ size' = size + ReadCount(n)
    /\ UNCHANGED <<file_len, truncate, hash, hf_ret, hpc>>
    /\ UNCHANGED pipeVars /\ UNCHANGED mainVars

\* count == 0: break; hasher.finalize(); hex::encode; truncate; return.
HrEnd ==
    /\ hpc = "read"
    /\ \E n \in Refills :
          /\ IsEof(ReadCount(n))
          /\ inner_pos' = (IF buf_avail = 0 THEN inner_pos + n ELSE inner_pos)
          /\ buf_avail' = Avail(n) - ReadCount(n)
    /\ hf_ret' = <<[digest |-> TruncateTo(HexEncode(hash), truncate), size |-> size]>>
    /\ hpc' = "done"
    /\ UNCHANGED <<file_len, fed, size, truncate, hash>>
    /\ UNCHANGED pipeVars /\ UNCHANGED mainVars

\* .expect("could not read file")
HrReadFail ==
    /\ hpc = "read"
    /\ hpc' = "panicked"
    /\ UNCHANGED <<file_len, inner_pos, buf_avail, fed, size, truncate, hash, hf_ret>>
    /\ UNCHANGED pipeVars /\ UNCHANGED mainVars

HashNext == HfOpen \/ HfOpenFail \/ HrChunk \/ HrEnd \/ HrReadFail

\* The thread running hash_file keeps running; errors are never forced.
HashProgress == HfOpen \/ HrChunk \/ HrEnd
HashSpec == HashInit /\ [][HashNext]_vars /\ WF_vars(HashProgress)

\* C16: the digest hash_file returns is the hex string cut to its first k
\* characters (whole when k exceeds its length or no k is given); cutting it
\* again changes nothing; the byte count is the one hash_reader counted.
TruncateIsPrefix ==
    hpc = "done" =>
       LET h == HexEncode(hash)
           r == hf_ret[1].digest
       IN /\ Len(h) = 2 * Len(hash)
          /\ truncate = <<>> => r = h
          /\ truncate # <<>> =>
                /\ truncate[1] <= Len(h) =>
                      Len(r) = truncate[1] /\ \A i \in 1..Len(r) : r[i] = h[i]
                /\ truncate[1] > Len(h) => r = h
          /\ TruncateTo(r, truncate) = r
          /\ hf_ret[1].size = size /\ size = file_len

\* A digest was cut strictly inside the hex string of a non-empty file.
TruncateWitness ==
    /\ hpc = "done" /\ truncate # <<>> /\ file_len > 0
    /\ truncate[1] > 0 /\ truncate[1] < 2 * Len(hash)
    /\ Len(hf_ret[1].digest) = truncate[1]

\* C17: the chunks fed to the hasher are non-empty, at most HASH_BUFFER_SIZE
\* bytes long and consecutive from offset 0; size counts the bytes fed; at
\* the end they cover the whole file; the loop ends for every file.
ChunkedRead ==
    /\ [](\A k \in 1..Len(fed) :
             /\ fed[k][1] < fed[k][2]
             /\ fed[k][2] - fed[k][1] <= HASH_BUFFER_SIZE
             /\ fed[k][1] = (IF k = 1 THEN 0 ELSE fed[k - 1][2]))
    /\ [](size = (IF fed = <<>> THEN 0 ELSE fed[Len(fed)][2]))
    /\ [](hpc = "done" =>
             /\ size = file_len /\ hf_ret[1].size = file_len
             /\ file_len = 0 => fed = <<>>)
    /\ <>(hpc \in {"done", "panicked"})

\* A file longer than both buffers was read to its end, with a short chunk
\* before the last one.
ChunkedReadWitness ==
    /\ hpc = "done" /\ file_len > READ_BUFFER_SIZE
    /\ \E k \in 1..(Len(fed) - 1) : fed[k][2] - fed[k][1] < HASH_BUFFER_SIZE

----------------------------------------------------------------------------
\* main and handle_single_file.  Strings are sequences of characters.

MaxArgs == 2
MaxPrinted == 2

DEFAULT_SEPARATOR == <<"TAB">>
COMPATIBLE_SEPARATOR == <<" ", " ">>
DASH == <<"-">>

\* An argument is its text and what the file system holds under that name.
ArgNames == {DASH, <<"a">>}
ArgKinds == {"dir", "file", "none"}
Arguments == [name : ArgNames, kind : ArgKinds]
ArgLists == UNION {[1..k -> Arguments] : k \in 1..MaxArgs}

\* Values of --separator: absent, or a string.
SeparatorArgs == {<<"\\", "t">>, <<"\\", "0">>, <<"\\", "t", "x">>, <<",">>, <<>>}
Options ==
    [separator : {<<>>} \cup {<<s>> : s \in SeparatorArgs},
     compatible : BOOLEAN, quiet : BOOLEAN,
     digest_length : {<<>>, <<0>>, <<DigestBytes>>}]

\* let separator = opt.separator.map(..).unwrap_or_else(..)
ResolveSeparator_prefix(o, hf) ==
    IF o # <<>>
    THEN LET s == o[1]
         IN IF Len(s) >= 2 /\ SubSeq(s, 1, 2) = <<"\\", "t">>
            THEN <<"TAB">> \o SubSeq(s, 3, Len(s))
            ELSE IF Len(s) >= 2 /\ SubSeq(s, 1, 2) = <<"\\", "0">>
                 THEN <<"NUL">> \o SubSeq(s, 3, Len(s))
                 ELSE s
    ELSE IF hf THEN COMPATIBLE_SEPARATOR ELSE DEFAULT_SEPARATOR
ResolveSeparator(o, hf) ==
    IF o # <<>>
    THEN LET s == o[1]
         IN IF s = <<"\\", "t">> THEN <<"TAB">>
            ELSE IF s = <<"\\", "0">> THEN <<"NUL">>
            ELSE s
    ELSE IF hf THEN COMPATIBLE_SEPARATOR ELSE DEFAULT_SEPARATOR

\* The if/else chain of main that picks the input; "single" is the branch
\* that calls handle_single_file and returns, "panic" the one that panics.
SelectInput_dirfirst(pa) ==
    IF pa = <<>> THEN [mode |-> "panic", paths |-> <<>>]
    ELSE IF Len(pa) = 1
    THEN LET inp == pa[Len(pa)]
         IN IF inp.kind = "dir" THEN [mode |-> "Directory", paths |-> <<inp.name>>]
            ELSE IF inp.name = DASH THEN [mode |-> "Stdin", paths |-> <<>>]
            ELSE IF inp.kind = "file" THEN [mode |-> "single", paths |-> <<inp.name>>]
            ELSE [mode |-> "panic", paths |-> <<>>]
    ELSE [mode |-> "Files", paths |-> [k \in 1..Len(pa) |-> pa[k].name]]
SelectInput(pa) ==
    IF pa = <<>> THEN [mode |-> "panic", paths |-> <<>>]
    ELSE IF Len(pa) = 1
    THEN LET inp == pa[Len(pa)]
         IN IF inp.name = DASH THEN [mode |-> "Stdin", paths |-> <<>>]
            ELSE IF inp.kind = "dir" THEN [mode |-> "Directory", paths |-> <<inp.name>>]
            ELSE IF inp.kind = "file" THEN [mode |-> "single", paths |-> <<inp.name>>]
            ELSE [mode |-> "panic", paths |-> <<>>]
    ELSE [mode |-> "Files", paths |-> [k \in 1..Len(pa) |-> pa[k].name]]

\* The println! of ResultOutput::handle_output.
OutputLine(hf, sep, path_as_str, h) ==
    IF hf THEN h \o sep \o path_as_str ELSE path_as_str \o sep \o h

\* The println! of handle_single_file.
SingleFileLine_pathfirst(hf, sep, path_as_str, digest) ==
    path_as_str \o sep \o digest
SingleFileLine(hf, sep, path_as_str, digest) ==
    IF hf THEN digest \o sep \o path_as_str ELSE path_as_str \o sep \o digest

\* Every file of a run has the content the run starts with.
MainHash == [i \in 1..DigestBytes |-> IF i % 2 = 1 THEN 171 ELSE 10]
MainFileLens == {0, HASH_BUFFER_SIZE + 1}

MainInit ==
    /\ PipelineIdle
    /\ args \in ArgLists
    /\ opt \in Options
    /\ separator = <<>> /\ hash_first = FALSE /\ input = NoInput
    /\ stdout = <<>> /\ stderr = <<>> /\ mpc = "start"
    /\ file_len \in MainFileLens /\ hash = MainHash
    /\ truncate = <<>> /\ inner_pos = 0 /\ buf_avail = 0 /\ fed = <<>>
    /\ size = 0 /\ hf_ret = <<>> /\ hpc = "idle"

hashRest == <<file_len, inner_pos, buf_avail, fed, size, hash, hf_ret>>

\* Opt::from_args() up to the separator.
MainParse ==
    /\ mpc = "start"
    /\ hash_first' = opt.compatible
    /\ separator' = ResolveSeparator(opt.separator, opt.compatible)
    /\ mpc' = "select"
    /\ UNCHANGED <<args, opt, input, stdout, stderr>>
    /\ UNCHANGED pipeVars /\ UNCHANGED hashVars

\* The input selection.  The single-file branch enters hash_file with
\* opt.digest_length; the others build the runtime or panic.
MainSelect ==
    /\ mpc = "select"
    /\ input' = SelectInput(args)
    /\ mpc' = (CASE input'.mode = "single" -> "single"
                 [] input'.mode = "panic" -> "panicked"
                 [] OTHER -> "pipeline")
    /\ IF input'.mode = "single"
       THEN hpc' = "open" /\ truncate' = opt.digest_length
       ELSE UNCHANGED <<hpc, truncate>>
    /\ UNCHANGED <<args, opt, separator, hash_first, stdout, stderr>>
    /\ UNCHANGED pipeVars /\ UNCHANGED hashRest

\* handle_single_file after hash_file has returned: the line, the summary,
\* and main returns.
MainSinglePrint ==
    /\ mpc = "single" /\ hpc = "done"
    /\ LET digest == hf_ret[1].digest
           path_as_str == input.paths[1]
       IN stdout' = Append(stdout,
              [line |-> SingleFileLine(hash_first, separator, path_as_str, digest),
               path |-> path_as_str, hash |-> digest])
    /\ stderr' = (IF opt.quiet THEN stderr ELSE Append(stderr, <<1, hf_ret[1].size>>))
    /\ mpc' = "exit"
    /\ UNCHANGED <<args, opt, separator, hash_first, input>>
    /\ UNCHANGED pipeVars /\ UNCHANGED hashVars

\* hash_file panicked inside handle_single_file.
MainSinglePanic ==
    /\ mpc = "single" /\ hpc = "panicked"
    /\ mpc' = "panicked"
    /\ UNCHANGED <<args, opt, separator, hash_first, input, stdout, stderr>>
    /\ UNCHANGED pipeVars /\ UNCHANGED hashVars

\* The next path the stream of the selected input yields.
StreamPath(in, k) ==
    CASE in.mode = "Files" -> in.paths[k]
      [] in.mode = "Directory" -> in.paths[1] \o <<"/", "x">>
      [] OTHER -> <<"l">>
StreamLen(in) == IF in.mode = "Files" THEN Len(in.paths) ELSE MaxPrinted

\* rt.block_on(input.hash(..)): hash_from_stream hands the sink the
\* separator and hash_first of main, and handle_output prints one result.
MainHandleOutput ==
    /\ mpc = "pipeline"
    /\ Len(stdout) < StreamLen(input)
    /\ LET path_as_str == StreamPath(input, Len(stdout) + 1)
           h == TruncateTo(HexEncode(hash), opt.digest_length)
       IN stdout' = Append(stdout,
              [line |-> OutputLine(hash_first, separator, path_as_str, h),
               path |-> path_as_str, hash |-> h])
    /\ UNCHANGED <<args, opt, separator, hash_first, input, stderr, mpc>>
    /\ UNCHANGED pipeVars /\ UNCHANGED hashVars

\* block_on returns and main ends.
MainBlockOnEnd ==
    /\ mpc = "pipeline"
    /\ mpc' = "exit"
    /\ UNCHANGED <<args, opt, separator, hash_first, input, stdout, stderr>>
    /\ UNCHANGED pipeVars /\ UNCHANGED hashVars

MainNext ==
    \/ MainParse \/ MainSelect
    \/ HfOpen \/ HfOpenFail \/ HrChunk \/ HrEnd \/ HrReadFail
    \/ MainSinglePrint \/ MainSinglePanic
    \/ MainHandleOutput \/ MainBlockOnEnd

MainSpec == MainInit /\ [][MainNext]_vars

\* C14: a single "-" selects the line reader, whatever lies under that name;
\* any other single argument selects the walker rooted there when it is a
\* directory, the fast path when it is a regular file, and a panic when it
\* is neither; two or more arguments select the list of exactly those
\* arguments, in order, whatever they are.
InputSelection ==
    mpc \notin {"start", "select"} =>
       /\ Len(args) = 1 =>
             LET a == args[1]
             IN /\ a.name = DASH =>
                      input.mode = "Stdin" /\ mpc \in {"pipeline", "exit"}
                /\ (a.name # DASH /\ a.kind = "dir") =>
                      /\ input.mode = "Directory" /\ input.paths = <<a.name>>
                      /\ mpc \in {"pipeline", "exit"}
                /\ (a.name # DASH /\ a.kind = "file") =>
                      /\ input.mode = "single" /\ input.paths = <<a.name>>
                      /\ mpc \in {"single", "exit", "panicked"}
                /\ (a.name # DASH /\ a.kind = "none") =>
                      input.mode = "panic" /\ mpc = "panicked" /\ stdout = <<>>
       /\ Len(args) >= 2 =>
             /\ input.mode = "Files" /\ mpc \in {"pipeline", "exit"}
             /\ Len(input.paths) = Len(args)
             /\ \A k \in 1..Len(args) : input.paths[k] = args[k].name

\* Two arguments, "-" first and a directory second, ran as a list and both
\* were printed.
InputSelectionWitness ==
    /\ mpc = "exit" /\ Len(args) = 2 /\ input.mode = "Files"
    /\ args[1].name = DASH /\ args[2].kind = "dir" /\ args[2].name # DASH
    /\ Len(stdout) = 2

\* C15: every line is path, separator, digest without --compatible and
\* digest, separator, path with it; the separator is the tab by default, two
\* spaces by default with --compatible, and otherwise the given string,
\* where exactly the strings backslash-t and backslash-0 stand for the tab
\* and the null character.
ExpectedSeparator ==
    IF opt.separator = <<>>
    THEN IF opt.compatible THEN <<" ", " ">> ELSE <<"TAB">>
    ELSE CASE opt.separator[1] = <<"\\", "t">> -> <<"TAB">>
           [] opt.separator[1] = <<"\\", "0">> -> <<"NUL">>
           [] OTHER -> opt.separator[1]
LineFormat ==
    \A k \in 1..Len(stdout) :
       stdout[k].line = (IF opt.compatible
                         THEN stdout[k].hash \o ExpectedSeparator \o stdout[k].path
                         ELSE stdout[k].path \o ExpectedSeparator \o stdout[k].hash)

\* A line was printed with a separator that starts with backslash-t and goes
\* on: it is kept as given.
LineFormatWitness ==
    /\ stdout # <<>> /\ opt.compatible
    /\ opt.separator = <<<<"\\", "t", "x">>>>
    /\ stdout[1].line = stdout[1].hash \o <<"\\", "t", "x">> \o stdout[1].path

\* C13: a single regular file never reaches the pipeline; when main has
\* returned it has printed exactly one line, the one handle_output prints
\* for that path with the digest hash_file returns under the same options,
\* and the only summary, absent when quiet, reports 1 file and its size.
FastPathEquivalent ==
    (Len(args) = 1 /\ args[1].name # DASH /\ args[1].kind = "file"
        /\ mpc \notin {"start", "select"}) =>
       /\ mpc # "pipeline" /\ PipelineIdle
       /\ mpc = "panicked" => stdout = <<>> /\ stderr = <<>>
       /\ mpc = "exit" =>
             /\ Len(stdout) = 1
             /\ stdout[1].line =
                   OutputLine(opt.compatible, ExpectedSeparator, args[1].name,
                              TruncateTo(HexEncode(hash), opt.digest_length))
             /\ stderr = (IF opt.quiet THEN <<>> ELSE <<<<1, file_len>>>>)

\* The fast path printed a digest-first line and a summary for a file
\* longer than one chunk, with a cut digest.
FastPathWitness ==
    /\ mpc = "exit" /\ input.mode = "single" /\ opt.compatible /\ ~opt.quiet
    /\ file_len > HASH_BUFFER_SIZE /\ opt.digest_length = <<DigestBytes>>
    /\ Len(stdout) = 1 /\ stderr = <<<<1, file_len>>>>
====
